---- MODULE Spec2Model ----
(***************************************************************************)
(* Zeitec verifier backend: registrant / device registration, issuance     *)
(* CSV validation, audit-trail deduplication and verifier review.          *)
(*                                                                         *)
(* The database tables are sequences of rows in commit order.  Every HTTP  *)
(* request is served by a worker; submit_issuance and create_review are    *)
(* split at the points where they read or write the shared database, so    *)
(* that two requests can interleave the way two server threads do.         *)
(***************************************************************************)
EXTENDS Integers, Sequences, FiniteSets, TLC

(***************************************************************************)
(* Bounds of the model.                                                    *)
(***************************************************************************)
MaxRows == 2          \* data rows in one uploaded CSV
MaxRequests == 3      \* submit_issuance / create_review requests that get past
                      \* their checks in one behaviour
MaxDevices == 1       \* rows of the devices table
MaxFiles == 1         \* files in the upload folder when a registry upload is taken
MaxIndexLen == 2      \* length of the index handed to check_duplicates alone

Workers == {"w1", "w2"}
Emails == {"e1"}
Ids == {"a", "b"}
None == "None"

(***************************************************************************)
(* Program constants (config.py, utils.py).                                *)
(***************************************************************************)
MAX_DEVICE_CAPACITY_KW == 250
GapHours == 2

\* config.py 40 sets MAX_CSV_ROWS = 10000; it is scaled down here so that an
\* upload of MaxRows rows is over it.  No function of the program reads it.
MAX_CSV_ROWS == 1
REQUIRED_ISSUANCE_PERIOD_COLUMNS == <<"deviceId", "timestamp", "kWh", "auditTrailId">>
REQUIRED_DEVICE_REGISTRY_COLUMNS ==
    <<"deviceId", "facilityId", "serialNumber", "manufacturer", "model",
      "capacityKW", "technology", "country", "gridConnectionPoint",
      "commissioningDate">>
ALLOWED_COUNTRIES == {"Nigeria", "Benin", "Ghana", "Kenya", "South Africa"}

(***************************************************************************)
(* Sequence helpers.                                                       *)
(***************************************************************************)
Range(s) == {s[i] : i \in 1..Len(s)}

SeqsUpTo(S, n) == UNION {[1..k -> S] : k \in 0..n}

NonEmptySeqsUpTo(S, n) == UNION {[1..k -> S] : k \in 1..n}

RECURSIVE SumSeq(_)
SumSeq(s) == IF s = <<>> THEN 0 ELSE Head(s) + SumSeq(Tail(s))

RECURSIVE SetToSeq(_)
SetToSeq(S) ==
    IF S = {} THEN <<>>
    ELSE LET x == CHOOSE y \in S : TRUE IN <<x>> \o SetToSeq(S \ {x})

\* Python's set(list): the members of the list, each once.
RECURSIVE ToSet(_)
ToSet(s) == IF s = <<>> THEN {} ELSE {Head(s)} \cup ToSet(Tail(s))

(***************************************************************************)
(* Uploaded CSV files.  A file is its set of column names and its data     *)
(* rows.  A timestamp cell either parses to an hour or does not parse.     *)
(***************************************************************************)
IssuanceColumns == {"deviceId", "timestamp", "kWh", "auditTrailId"}

DeviceNames == {"D1", "D2"}

Timestamps == {[ok |-> FALSE, hour |-> 0], [ok |-> TRUE, hour |-> 0],
               [ok |-> TRUE, hour |-> 2], [ok |-> TRUE, hour |-> 3]}

KwhValues == {0 - 1, 0, 5}

IssuanceRows ==
    [deviceId : DeviceNames, timestamp : Timestamps, kWh : KwhValues,
     auditTrailId : Ids]

\* Files with every column, and files that lack the auditTrailId column
\* (their rows carry no id), with or without the deviceId column.
IssuanceUploads ==
    {[columns |-> IssuanceColumns, rows |-> r] :
        r \in NonEmptySeqsUpTo(IssuanceRows, MaxRows)}
    \cup
    {[columns |-> c, rows |-> r] :
        c \in {IssuanceColumns \ {"auditTrailId"},
               IssuanceColumns \ {"auditTrailId", "deviceId"}},
        r \in NonEmptySeqsUpTo(
                 [deviceId : DeviceNames, timestamp : Timestamps,
                  kWh : KwhValues, auditTrailId : {None}], MaxRows)}

Countries == {"Ghana", "Mars"}

DeviceRows ==
    [deviceId : DeviceNames, facilityId : {"F1", "F2"},
     capacityKW : {MAX_DEVICE_CAPACITY_KW, MAX_DEVICE_CAPACITY_KW + 1},
     country : Countries]

DeviceUploads ==
    {[columns |-> c, rows |-> r] :
        c \in {Range(REQUIRED_DEVICE_REGISTRY_COLUMNS),
               Range(REQUIRED_DEVICE_REGISTRY_COLUMNS) \ {"country"},
               Range(REQUIRED_DEVICE_REGISTRY_COLUMNS) \ {"country", "capacityKW"}},
        r \in SeqsUpTo(DeviceRows, MaxRows)}

(***************************************************************************)
(* State.                                                                  *)
(***************************************************************************)
VARIABLES
    registrants,      \* registrants table: rows [email, status], id = position
    devices,          \* devices table: rows [registrant_id, status], id = position
    submissions,      \* issuance_submissions table, in commit order
    submission_seq,   \* last value drawn from issuance_submissions' id sequence
    deduplication_log,\* deduplication_log table (the global identity index)
    reviews,          \* verifier_reviews table: id = position
    files,            \* paths present in the upload folder
    req,              \* per worker: the request it is serving and its local state
    last,             \* the submit_issuance or create_review request answered
                      \* last, and the answer
    fn_args,          \* inputs handed to a function of utils.py run on its own
    fn_result         \* what the function returned for fn_args

vars == <<registrants, devices, submissions, submission_seq, deduplication_log,
          reviews, files, req, last, fn_args, fn_result>>

db_vars == <<registrants, devices, submissions, submission_seq,
             deduplication_log, reviews>>

fn_vars == <<fn_args, fn_result>>

(***************************************************************************)
(* utils.py                                                                *)
(***************************************************************************)
\* hashlib.sha256(...).hexdigest(), taken as collision free: the digest is
\* named by the string it was computed from.
calculate_sha256(data) == "sha256:" \o data

\* str() of a parsed timestamp and of a float kWh value.
TimestampStr(t) == "T" \o ToString(t.hour) \o ":00"

KwhStr(k) == ToString(k) \o ".0"

\* Variant of calculate_audit_trail_id that mixes the size of the index into
\* the digest.
calculate_audit_trail_id_salted(device_id, timestamp, kwh) ==
    calculate_sha256(device_id \o timestamp \o ToString(kwh) \o ".0"
                               \o "#" \o ToString(Len(deduplication_log)))

\* f"{device_id}{timestamp}{kwh}", kwh a float
calculate_audit_trail_id(device_id, timestamp, kwh) ==
    calculate_sha256(device_id \o timestamp \o KwhStr(kwh))

Error(kind, count, columns) ==
    [kind |-> kind, count |-> count, columns |-> columns]

\* Variant of missing_columns that stops at the first missing column.
missing_columns_first(required_columns, columns) ==
    LET missing == SelectSeq(required_columns, LAMBDA col : col \notin columns)
    IN  IF missing = <<>> THEN <<>> ELSE <<Head(missing)>>

missing_columns(required_columns, columns) ==
    SelectSeq(required_columns, LAMBDA col : col \notin columns)

\* Variant of large_gaps that counts a gap of exactly GapHours too.
large_gaps_inclusive(rows) ==
    LET hours == [i \in 1..Len(rows) |-> rows[i].timestamp.hour]
        sorted == SortSeq(hours, LAMBDA x, y : x < y)
    IN  Cardinality({i \in 1..(Len(sorted) - 1) :
                        sorted[i + 1] - sorted[i] >= GapHours})

\* Variant of negative_kwh_rows that takes a reading of zero for negative.
negative_kwh_rows_with_zero(rows) == {i \in 1..Len(rows) : rows[i].kWh <= 0}

\* df[df['kWh'] < 0]
negative_kwh_rows(rows) == {i \in 1..Len(rows) : rows[i].kWh < 0}

\* Variant of derive_ids that derives the ids whether or not the file brings
\* its own.
derive_ids_always(csv) ==
    [i \in 1..Len(csv.rows) |->
        "sha256:" \o csv.rows[i].deviceId
                 \o "T" \o ToString(csv.rows[i].timestamp.hour) \o ":00"
                 \o ToString(csv.rows[i].kWh) \o ".0"]

\* Number of consecutive pairs, in timestamp order, more than GapHours apart.
large_gaps(rows) ==
    LET hours == [i \in 1..Len(rows) |-> rows[i].timestamp.hour]
        sorted == SortSeq(hours, LAMBDA x, y : x < y)
    IN  Cardinality({i \in 1..(Len(sorted) - 1) :
                        sorted[i + 1] - sorted[i] > GapHours})

derive_ids(csv) ==
    IF "auditTrailId" \in csv.columns
    THEN [i \in 1..Len(csv.rows) |-> csv.rows[i].auditTrailId]
    ELSE [i \in 1..Len(csv.rows) |->
            calculate_audit_trail_id(csv.rows[i].deviceId,
                                     TimestampStr(csv.rows[i].timestamp),
                                     csv.rows[i].kWh)]

validate_issuance_period_csv(csv, required_columns) ==
    LET rows == csv.rows
        missing == missing_columns(required_columns, csv.columns)
        unparsed == {i \in 1..Len(rows) : ~rows[i].timestamp.ok}
        negative_kwh == negative_kwh_rows(rows)
        gaps == large_gaps(rows)
        ids == derive_ids(csv)
        empty == [valid |-> FALSE, errors |-> <<>>,
                  data |-> [present |-> FALSE, rows |-> <<>>],
                  total_rows |-> Len(rows), total_kwh |-> 0,
                  audit_trail_ids |-> <<>>]
    IN  IF missing # <<>>
        THEN [empty EXCEPT !.errors = <<Error("missing_columns", Len(missing), missing)>>]
        ELSE IF unparsed # {}
        THEN [empty EXCEPT !.errors = <<Error("invalid_timestamp", 1, <<>>)>>]
        ELSE [valid |-> negative_kwh = {},
              errors |->
                  (IF negative_kwh # {}
                   THEN <<Error("negative_kwh", Cardinality(negative_kwh), <<>>)>>
                   ELSE <<>>)
                  \o
                  (IF gaps > 0
                   THEN <<Error("warning_time_gaps", gaps, <<>>)>>
                   ELSE <<>>),
              data |-> [present |-> TRUE,
                        rows |-> IF "auditTrailId" \in csv.columns
                                 THEN rows
                                 ELSE [i \in 1..Len(rows) |->
                                        [rows[i] EXCEPT !.auditTrailId = ids[i]]]],
              total_rows |-> Len(rows),
              total_kwh |-> SumSeq([i \in 1..Len(rows) |-> rows[i].kWh]),
              audit_trail_ids |-> ids]

\* Variant of over_capacity_rows with the ceiling itself counted as above it.
over_capacity_rows_inclusive(rows, max_capacity_kw) ==
    SelectSeq(rows, LAMBDA r : r.capacityKW >= max_capacity_kw)

\* df[df['capacityKW'] > max_capacity_kw]
over_capacity_rows(rows, max_capacity_kw) ==
    SelectSeq(rows, LAMBDA r : r.capacityKW > max_capacity_kw)

\* Variant of duplicated_rows that compares the deviceId alone.
duplicated_rows_by_device(rows) ==
    {i \in 1..Len(rows) :
        \E j \in 1..Len(rows) : j # i /\ rows[j].deviceId = rows[i].deviceId}

\* df.duplicated(subset=['deviceId', 'facilityId'], keep=False): the rows
\* whose pair occurs in another row too.
duplicated_rows(rows) ==
    {i \in 1..Len(rows) :
        \E j \in 1..Len(rows) :
            /\ j # i
            /\ rows[j].deviceId = rows[i].deviceId
            /\ rows[j].facilityId = rows[i].facilityId}

validate_device_registry_csv(csv, required_columns, max_capacity_kw) ==
    LET rows == csv.rows
        missing == missing_columns(required_columns, csv.columns)
        over_capacity == over_capacity_rows(rows, max_capacity_kw)
        duplicates == duplicated_rows(rows)
        invalid_countries ==
            {i \in 1..Len(rows) : rows[i].country \notin ALLOWED_COUNTRIES}
    IN  IF missing # <<>>
        THEN [valid |-> FALSE,
              errors |-> <<Error("missing_columns", Len(missing), missing)>>,
              data |-> [present |-> FALSE, rows |-> <<>>],
              total_rows |-> Len(rows),
              over_capacity_devices |-> <<>>]
        ELSE [valid |-> /\ over_capacity = <<>>
                        /\ duplicates = {}
                        /\ invalid_countries = {},
              errors |->
                  (IF over_capacity # <<>>
                   THEN <<Error("over_capacity", Len(over_capacity), <<>>)>>
                   ELSE <<>>)
                  \o
                  (IF duplicates # {}
                   THEN <<Error("duplicate_device_facility", Cardinality(duplicates), <<>>)>>
                   ELSE <<>>)
                  \o
                  (IF invalid_countries # {}
                   THEN <<Error("invalid_country", Cardinality(invalid_countries), <<>>)>>
                   ELSE <<>>),
              data |-> [present |-> TRUE, rows |-> rows],
              total_rows |-> Len(rows),
              over_capacity_devices |->
                  [i \in 1..Len(over_capacity) |-> over_capacity[i].deviceId]]

\* Variant of check_duplicates that walks the batch's rows instead of
\* intersecting sets: a repeated id is counted once per row.
check_duplicates_per_row(audit_trail_ids, existing_audit_trail_ids) ==
    LET duplicates ==
            SelectSeq(audit_trail_ids,
                      LAMBDA x : x \in ToSet(existing_audit_trail_ids))
    IN  [has_duplicates |-> Len(duplicates) > 0,
         duplicate_count |-> Len(duplicates),
         duplicate_ids |-> duplicates]

check_duplicates(audit_trail_ids, existing_audit_trail_ids) ==
    LET duplicates == ToSet(audit_trail_ids) \cap ToSet(existing_audit_trail_ids)
    IN  [has_duplicates |-> Cardinality(duplicates) > 0,
         duplicate_count |-> Cardinality(duplicates),
         duplicate_ids |-> SetToSeq(duplicates)]

NoCheck == [has_duplicates |-> FALSE, duplicate_count |-> 0, duplicate_ids |-> <<>>]

Idle ==
    [op |-> "none", pc |-> "idle", code |-> "", error |-> "",
     registrant_id |-> 0, device_id |-> 0, csv_path |-> 0,
     audit_trail_ids |-> <<>>, data_ids |-> <<>>, existing |-> <<>>,
     duplicate_check |-> NoCheck, submission_status |-> "",
     submission_id |-> 0, decision |-> ""]

InitDb ==
    /\ registrants = <<>>
    /\ devices = <<>>
    /\ submissions = <<>>
    /\ submission_seq = 0
    /\ deduplication_log = <<>>
    /\ reviews = <<>>
    /\ files = {}
    /\ req = [w \in Workers |-> Idle]
    /\ last = Idle

Init ==
    /\ InitDb
    /\ fn_args = [batch |-> <<>>, index |-> <<>>]
    /\ fn_result = NoCheck

\* The audit-trail ids of the rows of the global index, in row order.
IndexIds == [i \in 1..Len(deduplication_log) |-> deduplication_log[i].audit_trail_id]

\* save_uploaded_file: a path no stored file has.
NewPath == CHOOSE n \in 1..(Cardinality(files) + 1) : n \notin files

RegistrantByEmail(email) ==
    IF \E i \in 1..Len(registrants) : registrants[i].email = email
    THEN CHOOSE i \in 1..Len(registrants) : registrants[i].email = email
    ELSE 0

\* Position of the row with primary key sid in issuance_submissions, or 0.
SubmissionRow(sid) ==
    IF \E i \in 1..Len(submissions) : submissions[i].id = sid
    THEN CHOOSE i \in 1..Len(submissions) : submissions[i].id = sid
    ELSE 0

(***************************************************************************)
(* registrant_routes.py                                                    *)
(***************************************************************************)
apply(email, country) ==
    /\ RegistrantByEmail(email) = 0
    /\ country \in ALLOWED_COUNTRIES
    /\ registrants' = Append(registrants, [email |-> email, status |-> "pending"])
    /\ UNCHANGED <<devices, submissions, submission_seq, deduplication_log,
                   reviews, files, req, last, fn_vars>>

approve_registrant(registrant_id) ==
    /\ registrant_id \in 1..Len(registrants)
    /\ registrants[registrant_id].status = "pending"
    /\ registrants' = [registrants EXCEPT ![registrant_id].status = "approved"]
    /\ UNCHANGED <<devices, submissions, submission_seq, deduplication_log,
                   reviews, files, req, last, fn_vars>>

reject_registrant(registrant_id, notes) ==
    /\ registrant_id \in 1..Len(registrants)
    /\ registrants[registrant_id].status = "pending"
    /\ notes # ""
    /\ registrants' = [registrants EXCEPT ![registrant_id].status = "rejected"]
    /\ UNCHANGED <<devices, submissions, submission_seq, deduplication_log,
                   reviews, files, req, last, fn_vars>>

(***************************************************************************)
(* device_routes.py                                                        *)
(***************************************************************************)
\* Variant of device_records: the devices are created already approved.
device_records_approved(registrant_id, df) ==
    [i \in 1..Len(df) |-> [registrant_id |-> registrant_id, status |-> "approved"]]

\* Lines 75-101: one Device per row of the validated file, status pending.
device_records(registrant_id, df) ==
    [i \in 1..Len(df) |-> [registrant_id |-> registrant_id, status |-> "pending"]]

\* os.remove(csv_path), line 67
remove_registry_file(fs, path) == fs \ {path}

\* The file is saved and validated; an invalid file is removed again and the
\* request refused before any Device is created.
submit_device_registry(email, csv) ==
    LET rid == RegistrantByEmail(email)
        validation_result ==
            validate_device_registry_csv(csv, REQUIRED_DEVICE_REGISTRY_COLUMNS,
                                         MAX_DEVICE_CAPACITY_KW)
        df == validation_result.data.rows
    IN  /\ rid # 0
        /\ registrants[rid].status = "approved"
        /\ IF ~validation_result.valid
           THEN /\ files' = remove_registry_file(files \cup {NewPath}, NewPath)
                /\ UNCHANGED devices
           ELSE /\ devices' = devices \o device_records(rid, df)
                /\ files' = files \cup {NewPath}
        /\ UNCHANGED <<registrants, submissions, submission_seq,
                       deduplication_log, reviews, req, last, fn_vars>>

\* The devices table and the upload folder have room for the upload.
RegistryFits(csv, max_devices, max_files) ==
    /\ Len(devices) + Len(csv.rows) <= max_devices
    /\ Cardinality(files) < max_files

approve_device(device_id) ==
    /\ device_id \in 1..Len(devices)
    /\ devices[device_id].status = "pending"
    /\ devices' = [devices EXCEPT ![device_id].status = "approved"]
    /\ UNCHANGED <<registrants, submissions, submission_seq, deduplication_log,
                   reviews, files, req, last, fn_vars>>

reject_device(device_id, notes) ==
    /\ device_id \in 1..Len(devices)
    /\ devices[device_id].status = "pending"
    /\ notes # ""
    /\ devices' = [devices EXCEPT ![device_id].status = "rejected"]
    /\ UNCHANGED <<registrants, submissions, submission_seq, deduplication_log,
                   reviews, files, req, last, fn_vars>>

(***************************************************************************)
(* issuance_routes.py: submit_issuance                                     *)
(*                                                                         *)
(* The handler runs in five steps, so that two requests interleave at the  *)
(* read of the index, at check_duplicates, at the adding of the entries    *)
(* and at the commit.                                                      *)
(***************************************************************************)
\* Requests that got past their checks: they hold, or will still write, a
\* submission or a review row.
RequestsStarted ==
    submission_seq + Len(reviews)
    + Cardinality({w \in Workers :
                      req[w].pc \in {"validated", "read", "checked", "loaded"}})

\* What is kept of an answered request: the request, the status code and the
\* error text of the answer.
Answered(r, code, error) ==
    [r EXCEPT !.pc = "done", !.code = code, !.error = error,
              !.existing = <<>>, !.csv_path = 0]

\* Variant of remove_file: the os.remove call is left out.
remove_file_skipped(fs, path) == fs

\* os.remove(csv_path)
remove_file(fs, path) == fs \ {path}

\* Lines 96-99
submission_status_of(duplicate_check) ==
    IF duplicate_check.has_duplicates THEN "duplicate_detected" ELSE "pending"

\* df['auditTrailId'] of the validated data, which lines 134-137 read.
data_ids(df) == [i \in 1..Len(df.rows) |-> df.rows[i].auditTrailId]

\* Line 45: device.registrant_id != registrant.id
device_of(device, registrant_id) == device.registrant_id = registrant_id

\* Lines 24-82: the form data, the registrant and device preconditions, the
\* upload and its validation.  The request is answered here when a check
\* fails.
SubmitStart(w, email, device_id, csv) ==
    LET rid == RegistrantByEmail(email)
        validation_result ==
            validate_issuance_period_csv(csv, REQUIRED_ISSUANCE_PERIOD_COLUMNS)
        r0 == [Idle EXCEPT !.op = "submit_issuance"]
        refuse(code, error) ==
            /\ last' = Answered(r0, code, error)
            /\ UNCHANGED <<req, files>>
    IN  /\ req[w].pc = "idle"
        /\ RequestsStarted < MaxRequests
        /\ IF rid = 0
           THEN refuse("404", "Registrant not found")
           ELSE IF registrants[rid].status # "approved"
           THEN refuse("403", "Registrant must be approved")
           ELSE IF device_id \notin 1..Len(devices)
           THEN refuse("404", "Device not found")
           ELSE IF ~device_of(devices[device_id], rid)
           THEN refuse("403", "Device does not belong to this registrant")
           ELSE IF devices[device_id].status # "approved"
           THEN refuse("403", "Device must be approved")
           ELSE IF ~validation_result.valid
           THEN \* the file is saved (64-68) and removed again (78)
                /\ last' = Answered(r0, "400", "CSV validation failed")
                /\ files' = remove_file(files \cup {NewPath}, NewPath)
                /\ UNCHANGED req
           ELSE /\ req' = [req EXCEPT ![w] = [r0 EXCEPT
                            !.pc = "validated",
                            !.registrant_id = rid,
                            !.device_id = device_id,
                            !.csv_path = NewPath,
                            !.audit_trail_ids = validation_result.audit_trail_ids,
                            !.data_ids = data_ids(validation_result.data)]]
                /\ files' = files \cup {NewPath}
                /\ UNCHANGED last
        /\ UNCHANGED <<db_vars, fn_vars>>

\* Lines 85-88: DeduplicationLog.query.all()
ReadIndex(w) ==
    /\ req[w].pc = "validated"
    /\ req' = [req EXCEPT ![w].pc = "read", ![w].existing = IndexIds]
    /\ UNCHANGED <<db_vars, files, last, fn_vars>>

\* Lines 90-99
CheckDuplicates(w) ==
    LET duplicate_check == check_duplicates(req[w].audit_trail_ids, req[w].existing)
    IN  /\ req[w].pc = "read"
        /\ req' = [req EXCEPT ![w].pc = "checked",
                              ![w].duplicate_check = duplicate_check,
                              ![w].submission_status =
                                  submission_status_of(duplicate_check)]
        /\ UNCHANGED <<db_vars, files, last, fn_vars>>

\* Lines 113-143: the submission is added and flushed, which draws its id;
\* the index entries are added to the session.
AddEntries(w) ==
    /\ req[w].pc = "checked"
    /\ submission_seq' = submission_seq + 1
    /\ req' = [req EXCEPT ![w].pc = "flushed", ![w].submission_id = submission_seq + 1]
    /\ UNCHANGED <<registrants, devices, submissions, deduplication_log,
                   reviews, files, last, fn_vars>>

\* Variant of new_log_rows with row-level acceptance: the ids of a flagged
\* batch that are not duplicates are entered.
new_log_rows_partial(duplicate_check, ids, submission_id) ==
    LET fresh == SelectSeq(ids, LAMBDA x : x \notin ToSet(duplicate_check.duplicate_ids))
    IN  [i \in 1..Len(fresh) |->
            [audit_trail_id |-> fresh[i], issuance_submission_id |-> submission_id]]

\* Lines 133-143: one DeduplicationLog row per data row, only without duplicates.
new_log_rows(duplicate_check, ids, submission_id) ==
    IF ~duplicate_check.has_duplicates
    THEN [i \in 1..Len(ids) |->
            [audit_trail_id |-> ids[i], issuance_submission_id |-> submission_id]]
    ELSE <<>>

\* Variant of unique_violation: the column without its unique constraint.
unique_violation_unconstrained(log, rows) == FALSE

\* models.py 232: audit_trail_id is unique.  The insert of rows fails when two
\* of them, or one of them and a committed row, carry the same id.
unique_violation(log, rows) ==
    \/ \E i, j \in 1..Len(rows) :
          i # j /\ rows[i].audit_trail_id = rows[j].audit_trail_id
    \/ \E i \in 1..Len(rows), j \in 1..Len(log) :
          rows[i].audit_trail_id = log[j].audit_trail_id

\* Variant of insert_log_rows: the table is rewritten with the new rows.
insert_log_rows_replacing(log, rows) == IF rows = <<>> THEN log ELSE rows

insert_log_rows(log, rows) == log \o rows

\* Variant of rolled_back: the flushed submission row outlives the failed
\* commit.
rolled_back_without_submission(committed, flushed) == Append(committed, flushed)

\* The session's rollback after a failed commit: the submission row flushed
\* at line 129 is discarded with the rest of the transaction.
rolled_back(committed, flushed) == committed

\* Lines 145-158: db.session.commit().  An IntegrityError rolls the transaction
\* back and the request ends with the server's error answer.
Commit(w) ==
    LET r == req[w]
        rows == new_log_rows(r.duplicate_check, r.data_ids, r.submission_id)
        submission ==
            [id |-> r.submission_id,
             registrant_id |-> r.registrant_id,
             device_id |-> r.device_id,
             status |-> r.submission_status,
             deduplication_result |-> r.duplicate_check,
             verifier_review_id |-> 0]
    IN  /\ r.pc = "flushed"
        /\ IF unique_violation(deduplication_log, rows)
           THEN /\ last' = Answered(r, "500", "Internal server error")
                /\ submissions' = rolled_back(submissions, submission)
                /\ UNCHANGED deduplication_log
           ELSE /\ submissions' = Append(submissions, submission)
                /\ deduplication_log' = insert_log_rows(deduplication_log, rows)
                /\ last' = Answered(r, "201", "")
        /\ req' = [req EXCEPT ![w] = Idle]
        /\ UNCHANGED <<registrants, devices, submission_seq, reviews, files, fn_vars>>

(***************************************************************************)
(* issuance_routes.py: create_review                                       *)
(***************************************************************************)
\* Line 249
reviewable(status) == status \in {"pending", "under_review"}

Decisions == {"approved", "rejected", "other"}

\* Lines 243-260: the submission is loaded and the request checked.
ReviewLoad(w, submission_id, decision) ==
    LET row == SubmissionRow(submission_id)
        r0 == [Idle EXCEPT !.op = "create_review",
                           !.submission_id = submission_id,
                           !.decision = decision]
        refuse(code, error) ==
            /\ last' = Answered(r0, code, error)
            /\ UNCHANGED req
    IN  /\ req[w].pc = "idle"
        /\ RequestsStarted < MaxRequests
        /\ IF row = 0
           THEN refuse("404", "Submission not found")
           ELSE IF ~reviewable(submissions[row].status)
           THEN refuse("400", "Cannot review submission with status")
           ELSE IF decision \notin {"approved", "rejected"}
           THEN refuse("400", "decision must be approved or rejected")
           ELSE /\ req' = [req EXCEPT ![w] = [r0 EXCEPT !.pc = "loaded"]]
                /\ UNCHANGED last
        /\ UNCHANGED <<db_vars, files, fn_vars>>

\* Variant of log_after_review: a rejection releases the ids of the
\* submission.
log_after_review_releasing(log, submission_id, decision) ==
    IF decision = "rejected"
    THEN SelectSeq(log, LAMBDA row : row.issuance_submission_id # submission_id)
    ELSE log

\* Lines 265-316 write no DeduplicationLog row and delete none.
log_after_review(log, submission_id, decision) == log

\* Lines 265-316: the review row, the status write and the commit.  review.id
\* is not assigned before the flush, so verifier_review_id receives None.
ReviewCommit(w) ==
    LET r == req[w]
        row == SubmissionRow(r.submission_id)
        review == [issuance_submission_id |-> r.submission_id,
                   decision |-> r.decision,
                   verifier_vc_issued |-> (r.decision = "approved")]
    IN  /\ r.pc = "loaded"
        /\ submissions' = [submissions EXCEPT ![row].status = r.decision,
                                              ![row].verifier_review_id = 0]
        /\ reviews' = Append(reviews, review)
        /\ req' = [req EXCEPT ![w] = Idle]
        /\ last' = Answered(r, "201", "")
        /\ deduplication_log' =
               log_after_review(deduplication_log, r.submission_id, r.decision)
        /\ UNCHANGED <<registrants, devices, submission_seq, files, fn_vars>>

(***************************************************************************)
(* The system: every request the API serves.  A handler reads an uploaded  *)
(* issuance file only through its validation report, so one file stands    *)
(* for all files with the same verdict and ids.                            *)
(***************************************************************************)
IssuanceVerdict(csv) ==
    LET v == validate_issuance_period_csv(csv, REQUIRED_ISSUANCE_PERIOD_COLUMNS)
    IN  <<v.valid, v.audit_trail_ids>>

IssuanceCases ==
    {CHOOSE csv \in IssuanceUploads : IssuanceVerdict(csv) = o :
        o \in {IssuanceVerdict(c) : c \in IssuanceUploads}}

\* The same for a registry file: the handler uses the verdict and the rows.
DeviceVerdict(csv) ==
    LET v == validate_device_registry_csv(csv, REQUIRED_DEVICE_REGISTRY_COLUMNS,
                                          MAX_DEVICE_CAPACITY_KW)
    IN  <<v.valid, Len(csv.rows), {v.errors[i].kind : i \in 1..Len(v.errors)}>>

DeviceCases ==
    {CHOOSE csv \in DeviceUploads : DeviceVerdict(csv) = o :
        o \in {DeviceVerdict(c) : c \in DeviceUploads}}

Next ==
    \/ \E email \in Emails, country \in Countries : apply(email, country)
    \/ \E i \in 1..Len(registrants) : approve_registrant(i)
    \/ \E i \in 1..Len(registrants), notes \in {"", "reason"} : reject_registrant(i, notes)
    \/ \E email \in Emails, csv \in DeviceCases :
          RegistryFits(csv, MaxDevices, MaxFiles) /\ submit_device_registry(email, csv)
    \/ \E i \in 1..Len(devices) : approve_device(i)
    \/ \E i \in 1..Len(devices), notes \in {"", "reason"} : reject_device(i, notes)
    \/ \E w \in Workers, email \in Emails \cup {"nobody"},
          device_id \in 1..(MaxDevices + 1), csv \in IssuanceCases :
          SubmitStart(w, email, device_id, csv)
    \/ \E w \in Workers : ReadIndex(w)
    \/ \E w \in Workers : CheckDuplicates(w)
    \/ \E w \in Workers : AddEntries(w)
    \/ \E w \in Workers : Commit(w)
    \/ \E w \in Workers, sid \in 1..(MaxRequests + 1), decision \in Decisions :
          ReviewLoad(w, sid, decision)
    \/ \E w \in Workers : ReviewCommit(w)

Spec == Init /\ [][Next]_vars

(***************************************************************************)
(* check_duplicates on its own, over every batch and index of the bounds.  *)
(***************************************************************************)
FnIds == {"a", "b", "c"}

NotRun == [has_duplicates |-> FALSE, duplicate_count |-> 0 - 1, duplicate_ids |-> <<>>]

InitFn ==
    /\ InitDb
    /\ fn_args \in [batch : SeqsUpTo(FnIds, MaxRows), index : SeqsUpTo(FnIds, MaxIndexLen)]
    /\ fn_result = NotRun

ApplyCheckDuplicates ==
    /\ fn_result = NotRun
    /\ fn_result' = check_duplicates(fn_args.batch, fn_args.index)
    /\ UNCHANGED <<db_vars, files, req, last, fn_args>>

NextFn == ApplyCheckDuplicates

SpecFn == InitFn /\ [][NextFn]_vars

(***************************************************************************)
(* The same API with its clients taking turns: a submit_issuance or a      *)
(* create_review request is taken only when no other is being served.      *)
(***************************************************************************)
NoRequestInService == \A w \in Workers : req[w].pc = "idle"

NextSeq ==
    \/ \E email \in Emails, country \in Countries : apply(email, country)
    \/ \E i \in 1..Len(registrants) : approve_registrant(i)
    \/ \E i \in 1..Len(registrants), notes \in {"", "reason"} : reject_registrant(i, notes)
    \/ \E email \in Emails, csv \in DeviceCases :
          RegistryFits(csv, MaxDevices, MaxFiles) /\ submit_device_registry(email, csv)
    \/ \E i \in 1..Len(devices) : approve_device(i)
    \/ \E i \in 1..Len(devices), notes \in {"", "reason"} : reject_device(i, notes)
    \/ \E w \in Workers, email \in Emails \cup {"nobody"},
          device_id \in 1..(MaxDevices + 1), csv \in IssuanceCases :
          NoRequestInService /\ SubmitStart(w, email, device_id, csv)
    \/ \E w \in Workers : ReadIndex(w)
    \/ \E w \in Workers : CheckDuplicates(w)
    \/ \E w \in Workers : AddEntries(w)
    \/ \E w \in Workers : Commit(w)
    \/ \E w \in Workers, sid \in 1..(MaxRequests + 1), decision \in Decisions :
          NoRequestInService /\ ReviewLoad(w, sid, decision)
    \/ \E w \in Workers : ReviewCommit(w)

SpecSeq == Init /\ [][NextSeq]_vars

(***************************************************************************)
(* The two validators on their own, over every upload of the bounds.  The  *)
(* issuance validator is run with the configured required columns and with *)
(* the three columns a file must have for its ids to be derived.           *)
(***************************************************************************)
DerivationColumns == <<"deviceId", "timestamp", "kWh">>

InitVal ==
    /\ InitDb
    /\ fn_args \in
           [kind : {"issuance"}, csv : IssuanceUploads,
            required_columns : {REQUIRED_ISSUANCE_PERIOD_COLUMNS, DerivationColumns}]
           \cup
           [kind : {"registry"}, csv : DeviceUploads,
            required_columns : {REQUIRED_DEVICE_REGISTRY_COLUMNS}]
    /\ fn_result = NotRun

ValidateIssuance ==
    /\ fn_args.kind = "issuance"
    /\ fn_result = NotRun
    /\ fn_result' = validate_issuance_period_csv(fn_args.csv, fn_args.required_columns)
    /\ UNCHANGED <<db_vars, files, req, last, fn_args>>

ValidateRegistry ==
    /\ fn_args.kind = "registry"
    /\ fn_result = NotRun
    /\ fn_result' = validate_device_registry_csv(fn_args.csv, fn_args.required_columns,
                                                 MAX_DEVICE_CAPACITY_KW)
    /\ UNCHANGED <<db_vars, files, req, last, fn_args>>

NextVal == ValidateIssuance \/ ValidateRegistry

SpecVal == InitVal /\ [][NextVal]_vars

(***************************************************************************)
(* Registrant and device registration on their own, with room for a        *)
(* registry file of MaxRows devices beside the devices already there and   *)
(* for a second registry file.                                             *)
(***************************************************************************)
MaxRegistryDevices == MaxDevices + MaxRows

MaxRegistryFiles == MaxFiles + 1

RegistryEmails == Emails \cup {"e2"}

NextDev ==
    \/ \E email \in RegistryEmails, country \in Countries : apply(email, country)
    \/ \E i \in 1..Len(registrants) : approve_registrant(i)
    \/ \E i \in 1..Len(registrants), notes \in {"", "reason"} : reject_registrant(i, notes)
    \/ \E email \in RegistryEmails, csv \in DeviceCases :
          RegistryFits(csv, MaxRegistryDevices, MaxRegistryFiles) /\ submit_device_registry(email, csv)
    \/ \E i \in 1..Len(devices) : approve_device(i)
    \/ \E i \in 1..Len(devices), notes \in {"", "reason"} : reject_device(i, notes)

SpecDev == Init /\ [][NextDev]_vars

(***************************************************************************)
(* The whole API with two registrants and two devices, its submit_issuance *)
(* and create_review clients taking turns.                                 *)
(***************************************************************************)
MaxOwnedDevices == MaxDevices + 1

FirstWorker == CHOOSE w \in Workers : TRUE

\* The uploads of this system: a batch of one id and a batch that repeats it
\* beside a second id.
TwoCases ==
    {csv \in IssuanceCases :
        IssuanceVerdict(csv) \in {<<TRUE, <<"a">>>>, <<TRUE, <<"a", "b">>>>}}

NextTwo ==
    \/ \E email \in RegistryEmails, country \in Countries : apply(email, country)
    \/ \E i \in 1..Len(registrants) : approve_registrant(i)
    \/ \E i \in 1..Len(registrants), notes \in {"", "reason"} : reject_registrant(i, notes)
    \/ \E email \in RegistryEmails, csv \in DeviceCases :
          RegistryFits(csv, MaxOwnedDevices, MaxRegistryFiles) /\ submit_device_registry(email, csv)
    \/ \E i \in 1..Len(devices) : approve_device(i)
    \/ \E i \in 1..Len(devices), notes \in {"", "reason"} : reject_device(i, notes)
    \/ \E w \in {FirstWorker}, email \in RegistryEmails \cup {"nobody"},
          device_id \in 1..(MaxOwnedDevices + 1), csv \in TwoCases :
          NoRequestInService /\ SubmitStart(w, email, device_id, csv)
    \/ \E w \in Workers : ReadIndex(w)
    \/ \E w \in Workers : CheckDuplicates(w)
    \/ \E w \in Workers : AddEntries(w)
    \/ \E w \in Workers : Commit(w)
    \/ \E w \in {FirstWorker}, sid \in 1..(MaxRequests + 1), decision \in Decisions :
          NoRequestInService /\ ReviewLoad(w, sid, decision)
    \/ \E w \in Workers : ReviewCommit(w)

SpecTwo == Init /\ [][NextTwo]_vars

(***************************************************************************)
(* The admin requests served at the same time.  In the systems above an    *)
(* approve or reject request is one step; here it is two, as the handlers  *)
(* run: the row is read and checked (registrant_routes.py 170-176, 214-    *)
(* 224, device_routes.py 236-242, 279-290), and the status is written and  *)
(* committed afterwards, with no lock held in between.                     *)
(***************************************************************************)
AdminDecisions == {"approved", "rejected"}

\* Registrant.query.get and the checks of approve_registrant (170-176) or of
\* reject_registrant (214-224).
RegistrantReviewLoad(w, registrant_id, decision, notes) ==
    LET r0 == [Idle EXCEPT !.op = "review_registrant",
                           !.registrant_id = registrant_id,
                           !.decision = decision]
        refuse(code, error) ==
            /\ last' = Answered(r0, code, error)
            /\ UNCHANGED req
    IN  /\ req[w].pc = "idle"
        /\ IF registrant_id \notin 1..Len(registrants)
           THEN refuse("404", "Registrant not found")
           ELSE IF registrants[registrant_id].status # "pending"
           THEN refuse("400", "Cannot review registrant with status")
           ELSE IF decision = "rejected" /\ notes = ""
           THEN refuse("400", "Rejection reason (notes) is required")
           ELSE /\ req' = [req EXCEPT ![w] = [r0 EXCEPT !.pc = "loaded"]]
                /\ UNCHANGED last
        /\ UNCHANGED <<db_vars, files, fn_vars>>

\* registrant.status = ...; db.session.commit() (181-197, 228-244)
RegistrantReviewCommit(w) ==
    LET r == req[w]
    IN  /\ r.op = "review_registrant"
        /\ r.pc = "loaded"
        /\ registrants' = [registrants EXCEPT ![r.registrant_id].status = r.decision]
        /\ req' = [req EXCEPT ![w] = Idle]
        /\ last' = Answered(r, "200", "")
        /\ UNCHANGED <<devices, submissions, submission_seq, deduplication_log,
                       reviews, files, fn_vars>>

\* Device.query.get and the checks of approve_device (236-242) or of
\* reject_device (279-290).
DeviceReviewLoad(w, device_id, decision, notes) ==
    LET r0 == [Idle EXCEPT !.op = "review_device",
                           !.device_id = device_id,
                           !.decision = decision]
        refuse(code, error) ==
            /\ last' = Answered(r0, code, error)
            /\ UNCHANGED req
    IN  /\ req[w].pc = "idle"
        /\ IF device_id \notin 1..Len(devices)
           THEN refuse("404", "Device not found")
           ELSE IF devices[device_id].status # "pending"
           THEN refuse("400", "Cannot review device with status")
           ELSE IF decision = "rejected" /\ notes = ""
           THEN refuse("400", "Rejection reason (notes) is required")
           ELSE /\ req' = [req EXCEPT ![w] = [r0 EXCEPT !.pc = "loaded"]]
                /\ UNCHANGED last
        /\ UNCHANGED <<db_vars, files, fn_vars>>

\* device.status = ...; db.session.commit() (246-263, 292-309)
DeviceReviewCommit(w) ==
    LET r == req[w]
    IN  /\ r.op = "review_device"
        /\ r.pc = "loaded"
        /\ devices' = [devices EXCEPT ![r.device_id].status = r.decision]
        /\ req' = [req EXCEPT ![w] = Idle]
        /\ last' = Answered(r, "200", "")
        /\ UNCHANGED <<registrants, submissions, submission_seq, deduplication_log,
                       reviews, files, fn_vars>>

\* The upload of this system: a batch of one id.
AdminCases == {csv \in IssuanceCases : IssuanceVerdict(csv) = <<TRUE, <<"a">>>>}

NextAdmin ==
    \/ \E email \in Emails, country \in Countries : apply(email, country)
    \/ \E w \in Workers, i \in 1..(Len(registrants) + 1),
          decision \in AdminDecisions, notes \in {"", "reason"} :
          RegistrantReviewLoad(w, i, decision, notes)
    \/ \E w \in Workers : RegistrantReviewCommit(w)
    \/ \E email \in Emails, csv \in DeviceCases :
          RegistryFits(csv, MaxDevices, MaxFiles) /\ submit_device_registry(email, csv)
    \/ \E w \in Workers, i \in 1..(Len(devices) + 1),
          decision \in AdminDecisions, notes \in {"", "reason"} :
          DeviceReviewLoad(w, i, decision, notes)
    \/ \E w \in Workers : DeviceReviewCommit(w)
    \/ \E w \in Workers, email \in Emails, device_id \in 1..MaxDevices,
          csv \in AdminCases :
          SubmitStart(w, email, device_id, csv)
    \/ \E w \in Workers : ReadIndex(w)
    \/ \E w \in Workers : CheckDuplicates(w)
    \/ \E w \in Workers : AddEntries(w)
    \/ \E w \in Workers : Commit(w)

SpecAdmin == Init /\ [][NextAdmin]_vars

(***************************************************************************)
(* calculate_audit_trail_id called while the API serves its requests one   *)
(* at a time: fn_result keeps, for every triple of arguments, the ids the  *)
(* function has returned for it so far, each with the size the index had   *)
(* at the call.                                                            *)
(***************************************************************************)
IdArgs ==
    {[device_id |-> "D1", timestamp |-> "T0:00", kwh |-> 5],
     [device_id |-> "D2", timestamp |-> "T0:00", kwh |-> 5],
     [device_id |-> "D1", timestamp |-> "T2:00", kwh |-> 0]}

InitId ==
    /\ InitDb
    /\ fn_args = None
    /\ fn_result = [a \in IdArgs |-> {}]

CallAuditTrailId(a) ==
    /\ NoRequestInService
    /\ fn_args' = a
    /\ fn_result' = [fn_result EXCEPT ![a] =
                        @ \cup {[index |-> Len(deduplication_log),
                                 id |-> calculate_audit_trail_id(
                                            a.device_id, a.timestamp, a.kwh)]}]
    /\ UNCHANGED <<db_vars, files, req, last>>

NextId ==
    \/ \E email \in Emails, country \in Countries : apply(email, country)
    \/ \E i \in 1..Len(registrants) : approve_registrant(i)
    \/ \E email \in Emails, csv \in DeviceCases :
          RegistryFits(csv, MaxDevices, MaxFiles) /\ submit_device_registry(email, csv)
    \/ \E i \in 1..Len(devices) : approve_device(i)
    \/ \E w \in Workers, email \in Emails, device_id \in 1..MaxDevices,
          csv \in IssuanceCases :
          NoRequestInService /\ SubmitStart(w, email, device_id, csv)
    \/ \E w \in Workers : ReadIndex(w)
    \/ \E w \in Workers : CheckDuplicates(w)
    \/ \E w \in Workers : AddEntries(w)
    \/ \E w \in Workers : Commit(w)
    \/ \E a \in IdArgs : CallAuditTrailId(a)

SpecId == InitId /\ [][NextId]_vars

(***************************************************************************)
(* calculate_audit_trail_id on two readings, over device ids, timestamp    *)
(* strings and kWh values of which one is a prefix or a suffix of another. *)
(***************************************************************************)
ReadingArgs ==
    [device_id : {"D1", "D11"},
     timestamp : {"2:00", "12:00", "2:00.1", "2:00.15"},
     kwh : {5, 55}]

InitPair ==
    /\ InitDb
    /\ fn_args \in [first : ReadingArgs, second : ReadingArgs]
    /\ fn_result = NotRun

ApplyAuditTrailIds ==
    /\ fn_result = NotRun
    /\ fn_result' =
           [first |-> calculate_audit_trail_id(fn_args.first.device_id,
                                               fn_args.first.timestamp,
                                               fn_args.first.kwh),
            second |-> calculate_audit_trail_id(fn_args.second.device_id,
                                                fn_args.second.timestamp,
                                                fn_args.second.kwh)]
    /\ UNCHANGED <<db_vars, files, req, last, fn_args>>

NextPair == ApplyAuditTrailIds

SpecPair == InitPair /\ [][NextPair]_vars

(***************************************************************************)
(* Properties of check_duplicates (utils.py), under SpecFn.                *)
(***************************************************************************)
\* The ids that occur both in the batch and in the index handed over.
FnShared ==
    {x \in FnIds :
        /\ \E i \in 1..Len(fn_args.batch) : fn_args.batch[i] = x
        /\ \E j \in 1..Len(fn_args.index) : fn_args.index[j] = x}

\* C10: for every batch (empty or with repeated ids) and every index (empty
\* or not), check_duplicates answers has_duplicates exactly when some id is
\* in both, duplicate_count the number of distinct ids in both, and
\* duplicate_ids with exactly those ids as members; with an empty batch or an
\* empty index it answers has_duplicates false and duplicate_count 0.
C10_CheckDuplicatesIsSetIntersection ==
    fn_result # NotRun =>
        /\ fn_result.has_duplicates <=> (FnShared # {})
        /\ fn_result.duplicate_count = Cardinality(FnShared)
        /\ Range(fn_result.duplicate_ids) = FnShared
        /\ (fn_args.batch = <<>> \/ fn_args.index = <<>>) =>
               (~fn_result.has_duplicates /\ fn_result.duplicate_count = 0)

\* A batch that repeats an id of the index has been judged.
C10_Witness ==
    /\ fn_result # NotRun
    /\ Len(fn_args.batch) = 2
    /\ fn_args.batch[1] = fn_args.batch[2]
    /\ fn_args.batch[1] \in Range(fn_args.index)
    /\ fn_result.duplicate_count = 1

(***************************************************************************)
(* Properties of submit_issuance (issuance_routes.py), under Spec.         *)
(***************************************************************************)
\* Worker w commits its submit_issuance request in this step.
SubmitCommits(w) ==
    /\ req[w].op = "submit_issuance"
    /\ req[w].pc = "flushed"
    /\ req'[w].pc # "flushed"

\* C1: two submit_issuance requests served at the same time whose batches
\* share an id never both pass check_duplicates with the verdict "no
\* duplicate": one of them sees the id in the index.
C1_RacingSubmissionsNeverBothClean ==
    \A w1, w2 \in Workers :
        (/\ w1 # w2
         /\ req[w1].op = "submit_issuance"
         /\ req[w2].op = "submit_issuance"
         /\ req[w1].pc \in {"checked", "flushed"}
         /\ req[w2].pc \in {"checked", "flushed"}
         /\ Range(req[w1].audit_trail_ids) \cap Range(req[w2].audit_trail_ids) # {})
        => \/ req[w1].duplicate_check.has_duplicates
           \/ req[w2].duplicate_check.has_duplicates

\* C2: the global index holds every audit-trail id at most once, whatever
\* batches were submitted (batches repeating an id in two rows included).
C2_IndexHoldsEachIdOnce ==
    \A i, j \in 1..Len(deduplication_log) :
        deduplication_log[i].audit_trail_id = deduplication_log[j].audit_trail_id
            => i = j

\* A batch with the same id in two rows went through to the commit while the
\* index held entries.
C2_Witness ==
    /\ last.op = "submit_issuance"
    /\ last.code = "500"
    /\ Len(last.audit_trail_ids) = 2
    /\ last.audit_trail_ids[1] = last.audit_trail_ids[2]
    /\ deduplication_log # <<>>

\* C3: a request whose batch has an id in the index it read commits a
\* submission with status duplicate_detected that carries the verdict
\* (duplicate_count = number of distinct ids shared with that index,
\* duplicate_ids = those ids), and its commit leaves the index unchanged: no
\* id of the batch is entered, the ids that are no duplicates included.
C3_DuplicateBatchHeldOutOfIndex ==
    [][\A w \in Workers :
          LET r == req[w]
              shared == Range(r.audit_trail_ids) \cap Range(r.existing)
              created == submissions'[Len(submissions')]
          IN  (SubmitCommits(w) /\ shared # {}) =>
                  /\ last'.code = "201"
                  /\ Len(submissions') = Len(submissions) + 1
                  /\ created.id = r.submission_id
                  /\ created.status = "duplicate_detected"
                  /\ created.deduplication_result.has_duplicates
                  /\ created.deduplication_result.duplicate_count = Cardinality(shared)
                  /\ Range(created.deduplication_result.duplicate_ids) = shared
                  /\ deduplication_log' = deduplication_log]_vars

\* A batch of two ids, one of them in the index, was committed as
\* duplicate_detected.
C3_Witness ==
    /\ last.op = "submit_issuance"
    /\ last.code = "201"
    /\ Cardinality(Range(last.audit_trail_ids)) = 2
    /\ \E i \in 1..Len(submissions) :
          /\ submissions[i].id = last.submission_id
          /\ submissions[i].status = "duplicate_detected"
          /\ submissions[i].deduplication_result.duplicate_count = 1
    /\ Len(deduplication_log) = 1

\* C4: a request whose batch has no id in the index at its commit commits a
\* submission with status pending and, in the same step, enters every id of
\* the batch: the ids of the index afterwards are those before plus the
\* batch's.
C4_CleanBatchCommittedWithItsIds ==
    [][\A w \in Workers :
          LET r == req[w]
              created == submissions'[Len(submissions')]
          IN  (/\ SubmitCommits(w)
               /\ Range(r.audit_trail_ids) \cap Range(IndexIds) = {}) =>
                  /\ Len(submissions') = Len(submissions) + 1
                  /\ created.id = r.submission_id
                  /\ created.status = "pending"
                  /\ Range(IndexIds') = Range(IndexIds) \cup Range(r.audit_trail_ids)]_vars

\* The uploads whose validation reports valid = false.
InvalidIssuanceCases ==
    {csv \in IssuanceCases :
        ~validate_issuance_period_csv(csv, REQUIRED_ISSUANCE_PERIOD_COLUMNS).valid}

\* C5: a submit_issuance request that passes the registrant and device checks
\* with a CSV whose validation reports valid = false is answered with an
\* error and leaves no trace: no submission, no id drawn, no index entry, the
\* upload folder as before (the saved file is removed), no request in service.
C5_InvalidCsvLeavesNoTrace ==
    [][\A w \in Workers, email \in Emails, device_id \in 1..MaxDevices :
          LET rid == RegistrantByEmail(email)
          IN  (/\ req[w].pc = "idle"
               /\ rid # 0
               /\ registrants[rid].status = "approved"
               /\ device_id \in 1..Len(devices)
               /\ devices[device_id].registrant_id = rid
               /\ devices[device_id].status = "approved"
               /\ \E csv \in InvalidIssuanceCases :
                      SubmitStart(w, email, device_id, csv)) =>
                  /\ last'.code = "400"
                  /\ submissions' = submissions
                  /\ submission_seq' = submission_seq
                  /\ deduplication_log' = deduplication_log
                  /\ files' = files
                  /\ req' = req]_vars

\* An invalid CSV was refused while the index held entries.
C5_Witness ==
    /\ last.op = "submit_issuance"
    /\ last.error = "CSV validation failed"
    /\ deduplication_log # <<>>

\* C7: a create_review request with the decision approved or rejected for a
\* submission in status duplicate_detected is accepted and gives the
\* submission that status.
C7_DuplicateDetectedCanBeReviewed ==
    [][LET row == SubmissionRow(last'.submission_id)
       IN  (/\ last' # last
            /\ last'.op = "create_review"
            /\ last'.decision \in {"approved", "rejected"}
            /\ row # 0
            /\ submissions[row].status = "duplicate_detected") =>
               /\ last'.code = "201"
               /\ submissions'[row].status = last'.decision]_vars

\* C8: the status of a submission changes only in a step that commits a
\* review of it and only to that review's decision, approved or rejected; a
\* status approved or rejected never changes again.
C8_ReviewedStatusIsFinal ==
    [][\A i \in 1..Len(submissions) :
          /\ submissions'[i].status # submissions[i].status =>
                 /\ submissions'[i].status \in {"approved", "rejected"}
                 /\ Len(reviews') = Len(reviews) + 1
                 /\ reviews'[Len(reviews')].issuance_submission_id = submissions[i].id
                 /\ reviews'[Len(reviews')].decision = submissions'[i].status
          /\ submissions[i].status \in {"approved", "rejected"} =>
                 submissions'[i].status = submissions[i].status]_vars

\* C9: no step of the API removes an entry of the global index: every row of
\* the index before a step is a row of the index after it.
C9_IndexGrowsMonotonically ==
    [][/\ Len(deduplication_log) <= Len(deduplication_log')
       /\ Range(deduplication_log) \subseteq Range(deduplication_log')]_vars

\* A verifier has rejected a submission whose ids are in the index, and a
\* device was approved.
C9_Witness ==
    /\ deduplication_log # <<>>
    /\ \E i \in 1..Len(reviews) : reviews[i].decision = "rejected"
    /\ \E i \in 1..Len(devices) : devices[i].status = "approved"
    /\ \E i \in 1..Len(deduplication_log), j \in 1..Len(submissions) :
          /\ submissions[j].id = deduplication_log[i].issuance_submission_id
          /\ submissions[j].status = "rejected"

(***************************************************************************)
(* Properties of submit_issuance with its clients taking turns, under      *)
(* SpecSeq.                                                                *)
(***************************************************************************)
\* C6: of two submissions handled one after the other that share an id, the
\* first having met none of its ids in the index: the first was committed as
\* pending with its ids in the index, and the second is committed as
\* duplicate_detected.
C6_SequentialFirstPendingSecondDuplicate ==
    [][\A w \in Workers :
          LET second == req[w]
              first == last
          IN  (/\ SubmitCommits(w)
               /\ first.op = "submit_issuance"
               /\ first.code \in {"201", "500"}
               /\ ~first.duplicate_check.has_duplicates
               /\ Range(first.audit_trail_ids)
                      \cap Range(second.audit_trail_ids) # {}) =>
                  /\ first.code = "201"
                  /\ first.submission_status = "pending"
                  /\ Range(first.audit_trail_ids) \subseteq Range(IndexIds)
                  /\ last'.code = "201"
                  /\ last'.submission_status = "duplicate_detected"]_vars

(***************************************************************************)
(* Properties of the upload handling of submit_issuance, under Spec.       *)
(***************************************************************************)
\* The request of worker w with these form fields passes the registrant and
\* device checks of submit_issuance.
PassesChecks(w, email, device_id) ==
    LET rid == RegistrantByEmail(email)
    IN  /\ req[w].pc = "idle"
        /\ rid # 0
        /\ registrants[rid].status = "approved"
        /\ device_id \in 1..Len(devices)
        /\ devices[device_id].registrant_id = rid
        /\ devices[device_id].status = "approved"

\* The uploads with the columns deviceId, timestamp and kWh, without the
\* auditTrailId column, that have no other fault.
DerivableUploads ==
    {csv \in IssuanceUploads :
        /\ csv.columns = IssuanceColumns \ {"auditTrailId"}
        /\ validate_issuance_period_csv(csv, DerivationColumns).valid}

\* C11: a submit_issuance request that passes the registrant and device
\* checks with a CSV that has deviceId, timestamp and kWh but no auditTrailId
\* column is taken into service, with one id per row derived from the row's
\* (deviceId, timestamp, kWh).
C11_FileWithoutIdColumnAccepted ==
    [][\A w \in Workers, email \in Emails, device_id \in 1..MaxDevices :
          PassesChecks(w, email, device_id) =>
              \A csv \in DerivableUploads :
                  SubmitStart(w, email, device_id, csv) =>
                      /\ req'[w].pc = "validated"
                      /\ req'[w].audit_trail_ids =
                             [i \in 1..Len(csv.rows) |->
                                 calculate_audit_trail_id(
                                     csv.rows[i].deviceId,
                                     TimestampStr(csv.rows[i].timestamp),
                                     csv.rows[i].kWh)]]_vars

(***************************************************************************)
(* Properties of the validators (utils.py), under SpecVal.                 *)
(***************************************************************************)
\* A validator has been run on fn_args.
Validated == fn_result # NotRun

\* The required columns the file lacks.
MissingFromFile ==
    {c \in Range(fn_args.required_columns) : c \notin fn_args.csv.columns}

\* The kinds of error the report lists.
ReportedKinds == {fn_result.errors[i].kind : i \in 1..Len(fn_result.errors)}

\* C12: when a required column is missing, the report of either validator is
\* invalid and has exactly one error, which names every missing column once;
\* it has no data and, for an issuance file, no audit-trail ids.
C12_MissingColumnsShortCircuit ==
    (Validated /\ MissingFromFile # {}) =>
        /\ ~fn_result.valid
        /\ Len(fn_result.errors) = 1
        /\ fn_result.errors[1].kind = "missing_columns"
        /\ Range(fn_result.errors[1].columns) = MissingFromFile
        /\ Len(fn_result.errors[1].columns) = Cardinality(MissingFromFile)
        /\ ~fn_result.data.present
        /\ fn_args.kind = "issuance" => fn_result.audit_trail_ids = <<>>

\* A registry file lacking two columns, with a row above the capacity
\* ceiling, has been validated.
C12_Witness ==
    /\ Validated
    /\ fn_args.kind = "registry"
    /\ Cardinality(MissingFromFile) = 2
    /\ \E i \in 1..Len(fn_args.csv.rows) :
          fn_args.csv.rows[i].capacityKW > MAX_DEVICE_CAPACITY_KW

\* The kinds of fatal condition present in the rows of the file.
PresentKinds ==
    LET rows == fn_args.csv.rows
    IN  IF fn_args.kind = "registry"
        THEN {k \in {"over_capacity"} :
                 \E i \in 1..Len(rows) : rows[i].capacityKW > MAX_DEVICE_CAPACITY_KW}
             \cup
             {k \in {"duplicate_device_facility"} :
                 \E i, j \in 1..Len(rows) :
                     /\ i # j
                     /\ rows[i].deviceId = rows[j].deviceId
                     /\ rows[i].facilityId = rows[j].facilityId}
             \cup
             {k \in {"invalid_country"} :
                 \E i \in 1..Len(rows) : rows[i].country \notin ALLOWED_COUNTRIES}
        ELSE {k \in {"invalid_timestamp"} :
                 \E i \in 1..Len(rows) : ~rows[i].timestamp.ok}
             \cup
             {k \in {"negative_kwh"} :
                 \E i \in 1..Len(rows) : rows[i].kWh < 0}

\* C13: for a file with all required columns the report lists an error for
\* every kind of fatal condition present in it (registry: over capacity,
\* duplicate device-facility pair, invalid country; issuance: unparseable
\* timestamp, negative kWh), and is invalid when there is one.
C13_EveryFatalConditionReported ==
    (Validated /\ MissingFromFile = {}) =>
        /\ PresentKinds \subseteq ReportedKinds
        /\ PresentKinds # {} => ~fn_result.valid

\* C14: the report of validate_device_registry_csv is valid exactly when no
\* required column is missing, no row has capacityKW above the ceiling, no
\* (deviceId, facilityId) pair occurs in two rows, and every row's country is
\* one of Nigeria, Benin, Ghana, Kenya, South Africa.
C14_RegistryValidExactlyWhenClean ==
    (Validated /\ fn_args.kind = "registry") =>
        LET rows == fn_args.csv.rows
        IN  fn_result.valid <=>
                /\ \A c \in Range(REQUIRED_DEVICE_REGISTRY_COLUMNS) :
                       c \in fn_args.csv.columns
                /\ \A i \in 1..Len(rows) : rows[i].capacityKW <= MAX_DEVICE_CAPACITY_KW
                /\ \A i, j \in 1..Len(rows) :
                       (rows[i].deviceId = rows[j].deviceId
                        /\ rows[i].facilityId = rows[j].facilityId) => i = j
                /\ \A i \in 1..Len(rows) :
                       rows[i].country \in
                           {"Nigeria", "Benin", "Ghana", "Kenya", "South Africa"}

\* A file of two devices that share the deviceId but not the facility, both
\* at the ceiling, was found valid.
C14_Witness ==
    /\ Validated
    /\ fn_args.kind = "registry"
    /\ fn_result.valid
    /\ Len(fn_args.csv.rows) = 2
    /\ fn_args.csv.rows[1].deviceId = fn_args.csv.rows[2].deviceId
    /\ fn_args.csv.rows[1].capacityKW = MAX_DEVICE_CAPACITY_KW

\* The rows of the file with capacityKW above the ceiling, in row order.
RowsAboveCeiling ==
    SelectSeq(fn_args.csv.rows, LAMBDA r : r.capacityKW > MAX_DEVICE_CAPACITY_KW)

\* What the report says about capacity: with a row above the ceiling it is
\* invalid, has an error counting those rows and lists their deviceIds;
\* without one (rows at the ceiling included) it has no capacity error.
CapacityReported ==
    IF RowsAboveCeiling # <<>>
    THEN /\ ~fn_result.valid
         /\ \E i \in 1..Len(fn_result.errors) :
               /\ fn_result.errors[i].kind = "over_capacity"
               /\ fn_result.errors[i].count = Len(RowsAboveCeiling)
         /\ fn_result.over_capacity_devices =
               [i \in 1..Len(RowsAboveCeiling) |-> RowsAboveCeiling[i].deviceId]
    ELSE "over_capacity" \notin ReportedKinds

\* C15 as stated: for every registry file with a capacityKW column, the
\* report says about capacity what CapacityReported describes.
C15_OverCapacityReported ==
    (/\ Validated
     /\ fn_args.kind = "registry"
     /\ "capacityKW" \in fn_args.csv.columns) => CapacityReported

\* C15, for the files that have every required column: the report says about
\* capacity what CapacityReported describes (a row above the ceiling makes it
\* invalid, counted and listed by deviceId; a row at the ceiling does not).
C15_OverCapacityReportedWhenColumnsPresent ==
    (/\ Validated
     /\ fn_args.kind = "registry"
     /\ MissingFromFile = {}) => CapacityReported

\* A file with every column, one row above the ceiling and one at it, has
\* been validated.
C15_Witness ==
    /\ Validated
    /\ fn_args.kind = "registry"
    /\ MissingFromFile = {}
    /\ Len(RowsAboveCeiling) = 1
    /\ Len(fn_args.csv.rows) = 2
    /\ fn_result.over_capacity_devices = <<fn_args.csv.rows[2].deviceId>>
    /\ fn_args.csv.rows[1].deviceId # fn_args.csv.rows[2].deviceId

(***************************************************************************)
(* Properties of submit_device_registry (device_routes.py), under SpecDev. *)
(***************************************************************************)
\* Some row of the file is above the capacity ceiling, has a country outside
\* the allow-list, or repeats the (deviceId, facilityId) pair of another row.
RowViolation(rows) ==
    \/ \E i \in 1..Len(rows) : rows[i].capacityKW > MAX_DEVICE_CAPACITY_KW
    \/ \E i \in 1..Len(rows) : rows[i].country \notin ALLOWED_COUNTRIES
    \/ \E i, j \in 1..Len(rows) :
          /\ i # j
          /\ rows[i].deviceId = rows[j].deviceId
          /\ rows[i].facilityId = rows[j].facilityId

\* C16: a registry upload of an approved registrant is taken whole or not at
\* all: when a row violates the capacity ceiling, the country allow-list or
\* the device-facility rule, no Device is created and the upload folder is as
\* before (the saved file is removed); when the file is valid, one Device per
\* row is added for the registrant, each with status pending.
C16_RegistryBatchWholeOrNothing ==
    [][\A email \in RegistryEmails, csv \in DeviceCases :
          LET rid == RegistrantByEmail(email)
              valid == validate_device_registry_csv(
                           csv, REQUIRED_DEVICE_REGISTRY_COLUMNS,
                           MAX_DEVICE_CAPACITY_KW).valid
          IN  (/\ rid # 0
               /\ registrants[rid].status = "approved"
               /\ submit_device_registry(email, csv)) =>
                  /\ RowViolation(csv.rows) =>
                         (devices' = devices /\ files' = files)
                  /\ valid =>
                         /\ Len(devices') = Len(devices) + Len(csv.rows)
                         /\ \A i \in 1..Len(devices) : devices'[i] = devices[i]
                         /\ \A i \in (Len(devices) + 1)..Len(devices') :
                               /\ devices'[i].registrant_id = rid
                               /\ devices'[i].status = "pending"]_vars

\* One registry file of two rows has been accepted: two pending devices.
C16_Witness ==
    /\ Len(devices) = 2
    /\ Cardinality(files) = 1
    /\ \A i \in 1..Len(devices) : devices[i].status = "pending"


(***************************************************************************)
(* Gaps between readings and negative readings, through submit_issuance    *)
(* with its clients taking turns (SpecSeq).                                *)
(***************************************************************************)
\* The report submit_issuance gets for an upload.
IssuanceReport(csv) ==
    validate_issuance_period_csv(csv, REQUIRED_ISSUANCE_PERIOD_COLUMNS)

\* The report carries the warning about time gaps.
GapWarned(csv) ==
    \E i \in 1..Len(IssuanceReport(csv).errors) :
        IssuanceReport(csv).errors[i].kind = "warning_time_gaps"

\* The uploads with every required column, timestamps that parse and no
\* negative reading: a gap is the only anomaly they can have.
ReadingsWithoutFault ==
    {csv \in IssuanceUploads :
        /\ csv.columns = IssuanceColumns
        /\ \A i \in 1..Len(csv.rows) :
              csv.rows[i].timestamp.ok /\ csv.rows[i].kWh >= 0}

\* Two readings of the file, adjacent in time, lie more than h hours apart.
HasGapOver(csv, h) ==
    \E i, j \in 1..Len(csv.rows) :
        /\ csv.rows[j].timestamp.hour - csv.rows[i].timestamp.hour > h
        /\ ~\E k \in 1..Len(csv.rows) :
              /\ csv.rows[i].timestamp.hour < csv.rows[k].timestamp.hour
              /\ csv.rows[k].timestamp.hour < csv.rows[j].timestamp.hour

\* The same file with every reading taken at the same hour.
WithoutGap(csv) ==
    [csv EXCEPT !.rows = [i \in 1..Len(csv.rows) |->
                             [csv.rows[i] EXCEPT !.timestamp.hour = 0]]]

\* Over every upload without another fault: the report is valid, and it
\* carries the gap warning exactly when two adjacent readings lie more than
\* GapHours apart.
GapOnlyWarns ==
    \A csv \in ReadingsWithoutFault :
        /\ IssuanceReport(csv).valid
        /\ GapWarned(csv) <=> HasGapOver(csv, GapHours)
        /\ IssuanceReport(csv).audit_trail_ids
               = IssuanceReport(WithoutGap(csv)).audit_trail_ids

\* One upload with a gap of more than GapHours for each batch of ids.
GapCases ==
    LET gapped == {csv \in ReadingsWithoutFault : HasGapOver(csv, GapHours)}
    IN  {CHOOSE csv \in gapped : IssuanceVerdict(csv) = o :
            o \in {IssuanceVerdict(c) : c \in gapped}}

\* C17: an issuance CSV whose only anomaly is a gap of more than 2 hours
\* between adjacent readings is reported valid with a warning, a gap of
\* exactly 2 hours gives no warning, and a submit_issuance request with the
\* gapped file is taken into service with the file's ids, in the very step
\* the request would take with the same file without the gap.
C17_GapWarnsAndSubmissionProceeds ==
    [][/\ GapOnlyWarns
       /\ \A w \in Workers, email \in Emails, device_id \in 1..MaxDevices :
             PassesChecks(w, email, device_id) =>
                 \A csv \in GapCases :
                     /\ SubmitStart(w, email, device_id, csv) =>
                            /\ req'[w].pc = "validated"
                            /\ req'[w].audit_trail_ids = data_ids(csv)
                     /\ SubmitStart(w, email, device_id, csv)
                            <=> SubmitStart(w, email, device_id, WithoutGap(csv))]_vars

\* A batch of two ids that a file with a gap of 3 hours brings was committed
\* as pending with both ids in the index, and the bounds hold files with a
\* gap of exactly GapHours too.
C17_Witness ==
    /\ \E csv \in GapCases :
          /\ last.op = "submit_issuance"
          /\ last.code = "201"
          /\ last.submission_status = "pending"
          /\ last.audit_trail_ids = data_ids(csv)
          /\ Range(data_ids(csv)) \subseteq Range(IndexIds)
    /\ \E csv \in ReadingsWithoutFault :
          ~HasGapOver(csv, GapHours) /\ HasGapOver(csv, GapHours - 1)


\* The uploads with a reading below zero in some row.
NegativeReadings ==
    {csv \in IssuanceUploads : \E i \in 1..Len(csv.rows) : csv.rows[i].kWh < 0}

\* The uploads without another fault that have a reading of exactly zero.
ZeroReadings ==
    {csv \in ReadingsWithoutFault : \E i \in 1..Len(csv.rows) : csv.rows[i].kWh = 0}

\* The files of one device read at one hour, with every required column.
OneDeviceOneHour ==
    {csv \in IssuanceUploads :
        /\ csv.columns = IssuanceColumns
        /\ \A i \in 1..Len(csv.rows) :
              /\ csv.rows[i].deviceId = "D1"
              /\ csv.rows[i].timestamp = [ok |-> TRUE, hour |-> 0]}

NegativeCases == NegativeReadings \cap OneDeviceOneHour

ZeroCases == ZeroReadings \cap OneDeviceOneHour

\* Over every upload: a reading below zero makes the report invalid, and a
\* reading of zero in a file without another fault leaves it valid.
NegativeInvalidZeroValid ==
    /\ \A csv \in NegativeReadings : ~IssuanceReport(csv).valid
    /\ \A csv \in ZeroReadings : IssuanceReport(csv).valid

ColumnCases == {csv \in OneDeviceOneHour : IssuanceReport(csv).valid}

\* The ids the derivation gives for the rows of the file.
DerivedIds(csv) ==
    [i \in 1..Len(csv.rows) |->
        calculate_audit_trail_id(csv.rows[i].deviceId,
                                 TimestampStr(csv.rows[i].timestamp),
                                 csv.rows[i].kWh)]

\* C20: a submit_issuance request with a valid CSV that has an auditTrailId
\* column is taken into service with exactly the column's values, in row
\* order, both as the ids to check against the index and as the ids to
\* write, though none of them is the id derived from its row; the request
\* keeps them while it is served, its check is made on them, and the ids its
\* commit adds to the index, if any, are these in row order.
C20_ColumnIdsUsedVerbatim ==
    [][\A w \in Workers :
          /\ \A email \in Emails, device_id \in 1..MaxDevices :
                PassesChecks(w, email, device_id) =>
                    \A csv \in ColumnCases :
                        SubmitStart(w, email, device_id, csv) =>
                            /\ req'[w].pc = "validated"
                            /\ req'[w].audit_trail_ids = data_ids(csv)
                            /\ req'[w].data_ids = data_ids(csv)
                            /\ \A i \in 1..Len(csv.rows) :
                                  data_ids(csv)[i] # DerivedIds(csv)[i]
          /\ (req[w].op = "submit_issuance" /\ req'[w].pc # "idle") =>
                /\ req'[w].audit_trail_ids = req[w].audit_trail_ids
                /\ req'[w].data_ids = req[w].data_ids
          /\ CheckDuplicates(w) =>
                req'[w].duplicate_check =
                    check_duplicates(req[w].audit_trail_ids, req[w].existing)
          /\ SubmitCommits(w) =>
                \/ IndexIds' = IndexIds
                \/ IndexIds' = IndexIds \o req[w].data_ids]_vars

\* The column's values <<"b", "a">> of a file were checked and written to
\* the index in that order.
C20_Witness ==
    /\ last.op = "submit_issuance"
    /\ last.code = "201"
    /\ last.audit_trail_ids = <<"b", "a">>
    /\ last.data_ids = <<"b", "a">>
    /\ IndexIds = <<"b", "a">>
    /\ \E csv \in ColumnCases : data_ids(csv) = <<"b", "a">>

SubmitSteps(w) == req[w].op = "submit_issuance" /\ req'[w] # req[w]

\* C21: every step of a submit_issuance request in service either leaves the
\* committed submissions and index as they are, or it is the commit, which
\* adds the submission row together with all the index rows of the batch
\* (none for a batch flagged as duplicate); a commit that fails leaves
\* neither the submission nor any of its index rows.
C21_SubmissionAndEntriesTogetherOrNotAtAll ==
    [][\A w \in Workers :
          SubmitSteps(w) =>
              LET r == req[w]
                  ids == IF r.duplicate_check.has_duplicates THEN <<>> ELSE r.data_ids
              IN  \/ /\ submissions' = submissions
                     /\ deduplication_log' = deduplication_log
                     /\ (SubmitCommits(w) => last'.code = "500")
                  \/ /\ SubmitCommits(w)
                     /\ last'.code = "201"
                     /\ Len(submissions') = Len(submissions) + 1
                     /\ submissions'[Len(submissions')].id = r.submission_id
                     /\ SubSeq(submissions', 1, Len(submissions)) = submissions
                     /\ deduplication_log' = deduplication_log \o
                            [i \in 1..Len(ids) |->
                                [audit_trail_id |-> ids[i],
                                 issuance_submission_id |-> r.submission_id]]]_vars

\* A commit failed after its submission row was flushed, and neither the
\* submission nor an index row of it is in the committed state.
C21_Witness ==
    /\ last.op = "submit_issuance"
    /\ last.code = "500"
    /\ last.submission_id > 0
    /\ SubmissionRow(last.submission_id) = 0
    /\ \A i \in 1..Len(deduplication_log) :
          deduplication_log[i].issuance_submission_id # last.submission_id


(***************************************************************************)
(* The row limit, under SpecVal.                                           *)
(***************************************************************************)
\* C22: a CSV with more data rows than MAX_CSV_ROWS is reported invalid, with
\* an error, by the validator it is given to.
C22_OversizedCsvReportedInvalid ==
    (Validated /\ Len(fn_args.csv.rows) > MAX_CSV_ROWS) =>
        /\ ~fn_result.valid
        /\ fn_result.errors # <<>>


(***************************************************************************)
(* The preconditions of a submission, with the admin requests served at    *)
(* the same time (SpecAdmin).                                              *)
(***************************************************************************)
\* Registrant rid is approved, device did is approved and belongs to rid.
Eligible(rid, did) ==
    /\ rid \in 1..Len(registrants)
    /\ did \in 1..Len(devices)
    /\ registrants[rid].status = "approved"
    /\ devices[did].status = "approved"
    /\ devices[did].registrant_id = rid

\* A valid and an invalid upload: the checks of the registrant and of the
\* device come before the file is looked at.
ProbeUploads ==
    {[columns |-> IssuanceColumns,
      rows |-> <<[deviceId |-> "D1", timestamp |-> [ok |-> TRUE, hour |-> 0],
                  kWh |-> k, auditTrailId |-> "a"]>>] : k \in {0 - 1, 5}}

EverySubmissionEligible ==
    \A i \in 1..Len(submissions) :
        Eligible(submissions[i].registrant_id, submissions[i].device_id)

\* A step that answers a request 403 or 404 and takes nothing into service,
\* stores no submission and adds no index entry.
RefusedOutright ==
    /\ last'.code \in {"403", "404"}
    /\ req' = req
    /\ submissions' = submissions
    /\ submission_seq' = submission_seq
    /\ deduplication_log' = deduplication_log

\* C23: a submission is committed only while its registrant is approved and
\* its device is approved and belongs to that registrant, and this stays so
\* for every submission that exists; a submit_issuance request whose
\* registrant is unknown or not approved, or whose device is unknown, not
\* approved or another registrant's, is refused at once with no request taken
\* into service, no submission and no index entry.
C23_SubmissionsOnlyFromApprovedPairs ==
    [][/\ EverySubmissionEligible'
       /\ \A w \in Workers :
             /\ (SubmitCommits(w) /\ last'.code = "201") =>
                    Eligible(req[w].registrant_id, req[w].device_id)
             /\ (req[w].pc = "idle" /\ ~RefusedOutright
                                    /\ (req'[w] # req[w] \/ last' # last)) =>
                    \A email \in RegistryEmails \cup {"nobody"},
                       device_id \in 1..(MaxOwnedDevices + 1) :
                        ~PassesChecks(w, email, device_id) =>
                            \A csv \in ProbeUploads :
                                ~SubmitStart(w, email, device_id, csv)]_vars

(***************************************************************************)
(* Reviews and credentials, under Spec.                                    *)
(***************************************************************************)
\* The status of the submission a review belongs to.
StatusOfReviewed(review) ==
    submissions[SubmissionRow(review.issuance_submission_id)].status

\* C24: a review carries an issued credential only if its decision is
\* approved, and in every state the submission of a review with an issued
\* credential has status approved: none is duplicate_detected or rejected.
C24_CredentialOnlyForApprovedSubmission ==
    \A i \in 1..Len(reviews) :
        reviews[i].verifier_vc_issued =>
            /\ reviews[i].decision = "approved"
            /\ StatusOfReviewed(reviews[i]) = "approved"


\* C27: no two reviews belong to the same submission, whether the
\* create_review requests for it come one after the other or at the same
\* time.
C27_AtMostOneReviewPerSubmission ==
    \A i, j \in 1..Len(reviews) :
        reviews[i].issuance_submission_id = reviews[j].issuance_submission_id
            => i = j

(***************************************************************************)
(* Rejected submissions and the index, with two registrants and two        *)
(* devices (SpecTwo).                                                      *)
(***************************************************************************)
\* Worker w commits its create_review request in this step.
ReviewCommits(w) ==
    /\ req[w].op = "create_review"
    /\ req[w].pc = "loaded"
    /\ req'[w].pc # "loaded"

\* The ids in the index that a rejected submission brought.
RejectedIds ==
    {deduplication_log[i].audit_trail_id : i \in
        {j \in 1..Len(deduplication_log) :
            LET row == SubmissionRow(deduplication_log[j].issuance_submission_id)
            IN  row # 0 /\ submissions[row].status = "rejected"}}

\* C25: the commit of a review, a rejection included, leaves every entry of
\* the index in place, and a submit_issuance request whose batch holds an id
\* brought by a rejected submission is committed with status
\* duplicate_detected and adds nothing to the index, whichever registrant and
\* device it comes from.
C25_RejectedIdsStillBlock ==
    [][\A w \in Workers :
          /\ ReviewCommits(w) => deduplication_log' = deduplication_log
          /\ (SubmitCommits(w)
                 /\ Range(req[w].audit_trail_ids) \cap RejectedIds # {}) =>
                 /\ last'.code = "201"
                 /\ last'.submission_status = "duplicate_detected"
                 /\ Len(submissions') = Len(submissions) + 1
                 /\ submissions'[Len(submissions')].id = req[w].submission_id
                 /\ submissions'[Len(submissions')].status = "duplicate_detected"
                 /\ deduplication_log' = deduplication_log]_vars

\* The submission of one registrant's device was committed as pending and
\* rejected, its ids are in the index, and a submission of the other
\* registrant's device was committed as duplicate_detected.
C25_Witness ==
    /\ RejectedIds # {}
    /\ \E i, j \in 1..Len(submissions) :
          /\ submissions[i].status = "rejected"
          /\ ~submissions[i].deduplication_result.has_duplicates
          /\ submissions[j].status = "duplicate_detected"
          /\ submissions[j].registrant_id # submissions[i].registrant_id
          /\ submissions[j].device_id # submissions[i].device_id
          /\ submissions[j].id > submissions[i].id


(***************************************************************************)
(* The identity of two readings (SpecPair).                                *)
(***************************************************************************)
\* C26: two readings that differ in deviceId, in timestamp string or in kWh
\* get different identities from calculate_audit_trail_id, the hash taken as
\* free of collisions.
C26_DistinctReadingsDistinctIds ==
    (fn_result # NotRun /\ fn_args.first # fn_args.second) =>
        fn_result.first # fn_result.second


(***************************************************************************)
(* The status of registrants and devices, with the admin requests served   *)
(* at the same time (SpecAdmin).                                           *)
(***************************************************************************)
\* C28: a registrant is created pending; its status changes only from
\* pending, to approved or to rejected, so that approved and rejected are
\* terminal; an approve or reject request that is refused leaves every
\* registrant as it is.
C28_RegistrantStatusOnlyFromPending ==
    [][/\ \A i \in 1..Len(registrants') :
             IF i \in 1..Len(registrants)
             THEN registrants'[i].status # registrants[i].status =>
                      /\ registrants[i].status = "pending"
                      /\ registrants'[i].status \in {"approved", "rejected"}
             ELSE registrants'[i].status = "pending"
       /\ (last' # last /\ last'.op = "review_registrant" /\ last'.code # "200") =>
              registrants' = registrants]_vars

\* C29: a device is created pending; its status changes only from pending,
\* to approved or to rejected, so that a rejected device never becomes
\* approved; and no submission is committed for a device that is rejected.
C29_DeviceStatusOnlyFromPending ==
    [][/\ \A i \in 1..Len(devices') :
             IF i \in 1..Len(devices)
             THEN devices'[i].status # devices[i].status =>
                      /\ devices[i].status = "pending"
                      /\ devices'[i].status \in {"approved", "rejected"}
             ELSE devices'[i].status = "pending"
       /\ \A w \in Workers :
             (SubmitCommits(w) /\ last'.code = "201") =>
                 devices[req[w].device_id].status # "rejected"]_vars


(***************************************************************************)
(* The review a submission refers to, with the clients taking turns        *)
(* (SpecSeq).  The id of a review is its position in reviews; 0 stands for *)
(* None.                                                                   *)
(***************************************************************************)
\* C30: the step that commits a create_review request leaves the
\* submission's verifier_review_id equal to the id of the review it has
\* created.
C30_SubmissionRefersToItsReview ==
    [][\A w \in Workers :
          ReviewCommits(w) =>
              LET row == SubmissionRow(req[w].submission_id)
              IN  /\ Len(reviews') = Len(reviews) + 1
                  /\ reviews'[Len(reviews')].issuance_submission_id = req[w].submission_id
                  /\ submissions'[row].verifier_review_id = Len(reviews')]_vars

====
